---- MODULE Spec2Model ----
(***************************************************************************)
(* The SNO+ plot-style scripts of claradima/plotting_stuff as a state      *)
(* machine.  Each script is a straight-line Python program; a run executes *)
(* its statements one by one against the pyplot state (open figures, the   *)
(* module namespace, rcParams) and the filesystem (the font file, the      *)
(* exported PDFs).  A session runs up to MaxRuns scripts one after another *)
(* in the same working directory.                                          *)
(*                                                                         *)
(* Library behaviour that the statements rely on (matplotlib):             *)
(*  - FontProperties(fname=p) only records p; the file is opened when a    *)
(*    text that uses it is rendered, and a missing file raises             *)
(*    FileNotFoundError there (no fallback family is substituted);         *)
(*  - Text.set_fontproperties / fontproperties= store a copy;              *)
(*  - Axes.legend(...) replaces the legend of the axes by a new one built  *)
(*    from the keyword arguments of that call alone;                       *)
(*  - plt.show() is a no-op under a non-interactive backend; under an      *)
(*    interactive one it draws every open figure, blocks until the user    *)
(*    closes the windows, and the closed figures are destroyed;            *)
(*  - plt.savefig saves the current figure, creating an empty one when no  *)
(*    figure is open.                                                      *)
(***************************************************************************)
EXTENDS Integers, Sequences, FiniteSets, TLC

(* ---------------------------- bounds ----------------------------------- *)

\* largest number of tick labels an axis (or the colorbar) carries
MaxTicks == 2
\* number of scripts run one after another in one session
MaxRuns == 2

(* ---------------------------- names ------------------------------------ *)

SansTemplate == "SNOplus_PythonPlotStyle_Sans.py"
TimesTemplate == "SNOplus_PythonPlotStyle_Times.py"
PlotsSans == "python_plots_sans.py"
PlotsTimes == "python_plots_times.py"
Plots == "python_plots.py"

Scripts == {SansTemplate, TimesTemplate, PlotsSans, PlotsTimes, Plots}

font_file == "Times_New_Roman_Normal.ttf"
Watermark == "SNO+ Preliminary"

(* ---------------------------- paths ------------------------------------ *)
\* A path is the sequence of its components; an absolute path starts "/".

RepoDir == <<"/", "repo">>
WorkDir == <<"/", "work">>
Dirs == {RepoDir, WorkDir}

IsAbs(p) == Len(p) > 0 /\ p[1] = "/"

\* a name with no directory part
IsBareName(p) == Len(p) = 1 /\ p[1] # "/"

\* the path the operating system opens for p in working directory d
Resolve(d, p) == IF IsAbs(p) THEN p ELSE d \o p

\* removal of "component/.." pairs, left to right
RECURSIVE Normalize(_, _)
Normalize(done, rest) ==
    IF rest = <<>> THEN done
    ELSE IF Head(rest) = ".." /\ Len(done) > 1
         THEN Normalize(SubSeq(done, 1, Len(done) - 1), Tail(rest))
         ELSE Normalize(Append(done, Head(rest)), Tail(rest))

\* os.path.realpath: absolute and normalised
realpath(d, p) == Normalize(<<>>, Resolve(d, p))

\* os.path.dirname
dirname(p) == SubSeq(p, 1, Len(p) - 1)

\* personal_path + '/' + font_file
JoinPath(dir, name) == Append(dir, name)

(* ---------------------------- fonts ------------------------------------ *)
\* A FontProperties value: the font file it names (<<>>: none, the default
\* family of rcParams is used) and its size ("": size from rcParams).

DefaultFont == [fname |-> <<>>, size |-> ""]

FontProperties(fname, size) == [fname |-> fname, size |-> size]

\* the fontproperties=/size= keywords of a text call: a copy, size overridden
TextFont(fp, size) == IF size = "" THEN fp ELSE [fp EXCEPT !.size = size]

(* ---------------------------- statements ------------------------------- *)
\* font expressions of a statement
NoFont == [how |-> "none", ref |-> "", fname |-> <<>>, size |-> ""]
FontVar(name) == [how |-> "var", ref |-> name, fname |-> <<>>, size |-> ""]
NewFontLit(p, size) == [how |-> "new", ref |-> "", fname |-> p, size |-> size]
NewFontVar(name, size) == [how |-> "new", ref |-> name, fname |-> <<>>, size |-> size]

Rc(l, k, v) == [op |-> "rc", line |-> l, key |-> k, val |-> v]
Assign(l, n, v) == [op |-> "assign", line |-> l, name |-> n, value |-> v]
Draw(l, obj, kind, args, bundle, explicit) ==
    [op |-> "draw", line |-> l, obj |-> obj, kind |-> kind, args |-> args,
     bundle |-> bundle, explicit |-> explicit]
SetLabel(l, obj, role, s, fe, size) ==
    [op |-> "set_label", line |-> l, obj |-> obj, role |-> role, s |-> s,
     font |-> fe, size |-> size]
TickFont(l, obj, axis, fname) ==
    [op |-> "tickfont", line |-> l, obj |-> obj, axis |-> axis, font |-> fname]
Legend(l, obj, frameon, fe) ==
    [op |-> "legend", line |-> l, obj |-> obj, frameon |-> frameon, font |-> fe]
MajorLocator(l, obj, axis) ==
    [op |-> "set_major_locator", line |-> l, obj |-> obj, axis |-> axis]
Text(l, obj, s, fe, size) ==
    [op |-> "text", line |-> l, obj |-> obj, s |-> s, font |-> fe, size |-> size]
Subplots(l) == [op |-> "subplots", line |-> l]
MinorticksOn(l, obj) == [op |-> "minorticks_on", line |-> l, obj |-> obj]
Show(l) == [op |-> "show", line |-> l]
Savefig(l, name, format) ==
    [op |-> "savefig", line |-> l, name |-> name, format |-> format]
Colorbar(l, target, label) ==
    [op |-> "colorbar", line |-> l, target |-> target, label |-> label]
TickParams(l, obj, axis, kw) ==
    [op |-> "tick_params", line |-> l, obj |-> obj, axis |-> axis, kw |-> kw]
TicksPosition(l, obj, axis) ==
    [op |-> "set_ticks_position", line |-> l, obj |-> obj, axis |-> axis]
ScriptDir(l, name) == [op |-> "scriptdir", line |-> l, name |-> name]
Join(l, name, dir, file) ==
    [op |-> "joinpath", line |-> l, name |-> name, dir |-> dir, file |-> file]
Font(l, name, fe) == [op |-> "font", line |-> l, name |-> name, font |-> fe]
Subplot(l, name) == [op |-> "subplot", line |-> l, name |-> name]
Gca(l, name) == [op |-> "gca", line |-> l, name |-> name]
GetHandles(l, obj) == [op |-> "get_handles", line |-> l, obj |-> obj]

\* the rcParams block shared by the templates, first statement on line b
CommonRcBlock(b) ==
    << Rc(b, "xtick.major.size", "6"), Rc(b + 1, "xtick.major.width", "1.6"),
       Rc(b + 3, "xtick.minor.size", "3"), Rc(b + 4, "xtick.minor.width", "1.6"),
       Rc(b + 6, "ytick.major.size", "6"), Rc(b + 7, "ytick.major.width", "1.6"),
       Rc(b + 9, "ytick.minor.size", "3"), Rc(b + 10, "ytick.minor.width", "1.6"),
       Rc(b + 12, "axes.linewidth", "1.6"),
       Rc(b + 14, "figure.facecolor", "white"),
       Rc(b + 16, "figure.figsize", "(8.5, 6.5)"),
       Rc(b + 18, "xtick.major.pad", "6"), Rc(b + 19, "ytick.major.pad", "6"),
       Rc(b + 21, "axes.titlepad", "12"),
       Rc(b + 23, "xtick.direction", "in"), Rc(b + 24, "ytick.direction", "in") >>

\* the global font settings of the sans scripts, first statement on line b
SansFontRcBlock(b) ==
    << Rc(b, "font.family", "sans-serif"), Rc(b + 2, "font.size", "12"),
       Rc(b + 4, "axes.titlesize", "20"), Rc(b + 6, "axes.labelsize", "16"),
       Rc(b + 8, "xtick.labelsize", "14"), Rc(b + 9, "ytick.labelsize", "14"),
       Rc(b + 11, "legend.fontsize", "12") >>

\* StyleBlock with the label carried by the error-bar bundle itself
StyleBlock_Mut(b, histwidth, linewidth) ==
    << Assign(b, "histogram_style",
              [histtype |-> "step", color |-> "blue", alpha |-> "0.7",
               linewidth |-> histwidth]),
       Assign(b + 7, "scatter_style",
              [marker |-> "s", color |-> "black", s |-> "25"]),
       Assign(b + 13, "errorbar_style",
              [linestyle |-> "None", color |-> "black", capsize |-> "1.5",
               label |-> "Errorbar"]),
       Assign(b + 19, "line_plot_style",
              [linestyle |-> "-", color |-> "red", linewidth |-> linewidth]) >>

\* the four style dictionaries, histogram_style on line b
StyleBlock(b, histwidth, linewidth) ==
    << Assign(b, "histogram_style",
              [histtype |-> "step", color |-> "blue", alpha |-> "0.7",
               linewidth |-> histwidth]),
       Assign(b + 7, "scatter_style",
              [marker |-> "s", color |-> "black", s |-> "25"]),
       Assign(b + 13, "errorbar_style",
              [linestyle |-> "None", color |-> "black", capsize |-> "1.5"]),
       Assign(b + 19, "line_plot_style",
              [linestyle |-> "-", color |-> "red", linewidth |-> linewidth]) >>

StyleNames == {"histogram_style", "scatter_style", "errorbar_style", "line_plot_style"}

\* the example data, x on line b
XInts == <<"1", "2", "3", "4", "5", "6", "7", "8", "9", "10">>
XFloats == <<"1.1", "2.5", "3.2", "4", "4.5", "6.7", "7", "8", "9", "10">>
DataBlock(b, xs) ==
    << Assign(b, "x", xs),
       Assign(b + 1, "y", <<"2", "4", "6", "8", "10", "9", "6.6", "7", "8.5", "3">>),
       Assign(b + 2, "y_2", <<"1.3", "3.1", "5", "6", "9", "8", "6.5", "6", "7", "3.5">>) >>

\* DrawBlock with the scatter call given the error-bar bundle
DrawBlock_Mut(b) ==
    << Draw(b, "ax", "hist", <<"y">>, "histogram_style", [label |-> "Histogram"]),
       Draw(b + 2, "ax", "plot", <<"x", "y_2">>, "line_plot_style",
            [label |-> "Line Plot"]),
       Draw(b + 4, "ax", "scatter", <<"x", "y">>, "errorbar_style",
            [label |-> "Scatter"]),
       Draw(b + 6, "ax", "errorbar", <<"x", "y">>, "errorbar_style",
            [yerr |-> "0.5", label |-> "Errorbar"]) >>

\* the four draw calls of example plot 1, ax.hist on line b
DrawBlock(b) ==
    << Draw(b, "ax", "hist", <<"y">>, "histogram_style", [label |-> "Histogram"]),
       Draw(b + 2, "ax", "plot", <<"x", "y_2">>, "line_plot_style",
            [label |-> "Line Plot"]),
       Draw(b + 4, "ax", "scatter", <<"x", "y">>, "scatter_style",
            [label |-> "Scatter"]),
       Draw(b + 6, "ax", "errorbar", <<"x", "y">>, "errorbar_style",
            [yerr |-> "0.5", label |-> "Errorbar"]) >>

\* data = np.random.random((30, 30)) / img = ax.imshow(data, cmap='viridis')
RandomData(l) == Assign(l, "data", <<"random", "30", "30">>)
Imshow(l) == Draw(l, "ax", "imshow", <<"data">>, "none", [cmap |-> "viridis"])

(* ------------------- SNOplus_PythonPlotStyle_Sans.py ------------------- *)

SansSave1 == Savefig(151, <<"example1D_Sans.pdf">>, "pdf")
SansSave2 == Savefig(180, <<"example2D_Sans.pdf">>, "pdf")
\* SansLegend with the frame switched off globally instead of in the call
SansLegend_Mut == Rc(137, "legend.frameon", "False")
SansLegend == Legend(137, "ax", "False", NoFont)

ProgramSansTemplate ==
    SansFontRcBlock(39) \o CommonRcBlock(55) \o StyleBlock(82, "1.5", "2")
    \o DataBlock(109, XInts)
    \o << Subplots(115), MinorticksOn(119, "ax") >>
    \o DrawBlock(124)
    \o << SetLabel(133, "ax", "xlabel", "This is the x axis", NoFont, ""),
          SetLabel(134, "ax", "ylabel", "This is the y axis", NoFont, ""),
          SetLabel(135, "ax", "title", "Different kinds of plots!! so cool", NoFont, ""),
          SansLegend,
          MajorLocator(142, "ax", "x"), MajorLocator(143, "ax", "y"),
          Text(146, "ax", Watermark, NoFont, ""),
          Show(148),
          SansSave1,
          Subplots(154),
          RandomData(160),
          Imshow(165),
          Colorbar(170, "", "Color Map"),
          SetLabel(172, "ax", "xlabel", "This is the x axis", NoFont, ""),
          SetLabel(173, "ax", "ylabel", "This is the y axis", NoFont, ""),
          SetLabel(174, "ax", "title", "Color map plot", NoFont, ""),
          Text(177, "ax", Watermark, NoFont, ""),
          Show(179),
          SansSave2 >>

(* ------------------- SNOplus_PythonPlotStyle_Times.py ------------------ *)

TimesSave1 == Savefig(176, <<"example1D_Times.pdf">>, "pdf")
\* TimesSave2 with the output name of the first export
TimesSave2_Mut == Savefig(237, <<"example1D_Times.pdf">>, "pdf")
TimesSave2 == Savefig(237, <<"example2D_Times.pdf">>, "pdf")
TimesLegend == Legend(158, "ax", "False", NewFontVar("font_path", "16"))
TimesFontPath ==
    << ScriptDir(40, "personal_path"),
       Assign(41, "font_file", font_file),
       Join(42, "font_path", "personal_path", "font_file"),
       Font(45, "paper_font", NewFontVar("font_path", "24")) >>

ProgramTimesTemplate ==
    TimesFontPath
    \o << Rc(48, "xaxis.labellocation", "right"), Rc(49, "yaxis.labellocation", "top") >>
    \o CommonRcBlock(54)
    \o << Rc(81, "xtick.top", "True"), Rc(82, "xtick.bottom", "True"),
          Rc(83, "ytick.left", "True"), Rc(84, "ytick.right", "True") >>
    \o StyleBlock(90, "2", "2.5")
    \o DataBlock(116, XFloats)
    \o << Subplots(122), MinorticksOn(127, "ax") >>
    \o DrawBlock(132)
    \o << SetLabel(145, "ax", "xlabel", "${\\Delta}$R (m)", FontVar("paper_font"), "26"),
          SetLabel(146, "ax", "ylabel", "${\\alpha \\beta \\gamma}$",
                   FontVar("paper_font"), "26"),
          TickFont(151, "ax", "x", "paper_font"),
          TickFont(154, "ax", "y", "paper_font"),
          TimesLegend,
          MajorLocator(161, "ax", "x"), MajorLocator(162, "ax", "y"),
          Text(168, "ax", Watermark, FontVar("paper_font"), "26"),
          TimesSave1,
          Subplots(179),
          Assign(186, "x", <<"linspace", "0", "1", "30">>),
          Assign(187, "y", <<"linspace", "0", "1", "30">>),
          \* X, Y = np.meshgrid(x, y): one tuple assignment, two names
          Assign(188, "X", <<"meshgrid", "x", "y", "0">>),
          Assign(188, "Y", <<"meshgrid", "x", "y", "1">>),
          Assign(191, "data", <<"(X + Y) / 2">>),
          Subplots(195),
          Imshow(196),
          Colorbar(201, "colorbar", "Color Map"),
          SetLabel(204, "colorbar", "label", "Color Map", FontVar("paper_font"), ""),
          TickFont(208, "colorbar", "y", "paper_font"),
          SetLabel(215, "ax", "xlabel", "${\\Delta}$R (m)", FontVar("paper_font"), "26"),
          SetLabel(216, "ax", "ylabel", "${\\alpha \\beta \\gamma}$",
                   FontVar("paper_font"), "26"),
          TickFont(220, "ax", "x", "paper_font"),
          TickFont(223, "ax", "y", "paper_font"),
          Text(230, "ax", Watermark, FontVar("paper_font"), "26"),
          TimesSave2 >>

(* ------------------------ python_plots_times.py ------------------------ *)

PlotsTimesFont == Font(22, "paper_font", NewFontLit(<<font_file>>, "16"))
\* PlotsTimesLegends with the two calls in the other order
PlotsTimesLegends_Mut ==
    << Legend(124, "ax", "False", NoFont),
       Legend(127, "ax", "", NewFontLit(<<font_file>>, "12")) >>
PlotsTimesLegends ==
    << Legend(124, "ax", "", NewFontLit(<<font_file>>, "12")),
       Legend(127, "ax", "False", NoFont) >>

ProgramPlotsTimes ==
    << PlotsTimesFont >>
    \o StyleBlock(28, "1.5", "2")
    \o CommonRcBlock(56)
    \o DataBlock(83, XFloats)
    \o << Subplots(89), MinorticksOn(94, "ax") >>
    \o DrawBlock(100)
    \o << SetLabel(109, "ax", "xlabel", "This is the x axis", FontVar("paper_font"), "20"),
          SetLabel(110, "ax", "ylabel", "This is the y axis", FontVar("paper_font"), "20"),
          SetLabel(111, "ax", "title", "Different kinds of plots!! so cool",
                   FontVar("paper_font"), "22"),
          TickFont(114, "ax", "x", "paper_font"),
          TickFont(117, "ax", "y", "paper_font"),
          GetHandles(121, "ax") >>
    \o PlotsTimesLegends
    \o << MajorLocator(130, "ax", "x"), MajorLocator(131, "ax", "y"),
          Text(134, "ax", Watermark, NewFontLit(<<font_file>>, "14"), ""),
          Show(137),
          Subplots(140),
          RandomData(146),
          Imshow(151),
          Colorbar(156, "colorbar", "Color Map"),
          SetLabel(159, "colorbar", "label", "Color Map", FontVar("paper_font"), ""),
          TickParams(160, "colorbar", "y", [labelsize |-> "12"]),
          SetLabel(163, "ax", "xlabel", "This is the x axis", FontVar("paper_font"), "20"),
          SetLabel(164, "ax", "ylabel", "This is the y axis", FontVar("paper_font"), "20"),
          SetLabel(165, "ax", "title", "Color map plot", FontVar("paper_font"), "22"),
          TickFont(167, "ax", "x", "paper_font"),
          TickFont(170, "ax", "y", "paper_font"),
          Text(174, "ax", Watermark, NewFontLit(<<font_file>>, "14"), ""),
          Show(176) >>

(* ------------------------- python_plots_sans.py ------------------------ *)

PlotsSansLegend == Legend(123, "ax", "False", NoFont)

ProgramPlotsSans ==
    SansFontRcBlock(25) \o CommonRcBlock(41) \o StyleBlock(68, "1.5", "2")
    \o DataBlock(95, XInts)
    \o << Subplots(101), MinorticksOn(105, "ax") >>
    \o DrawBlock(110)
    \o << SetLabel(119, "ax", "xlabel", "This is the x axis", NoFont, ""),
          SetLabel(120, "ax", "ylabel", "This is the y axis", NoFont, ""),
          SetLabel(121, "ax", "title", "Different kinds of plots!! so cool", NoFont, ""),
          PlotsSansLegend,
          MajorLocator(128, "ax", "x"), MajorLocator(129, "ax", "y"),
          Show(131),
          Subplots(134),
          RandomData(140),
          Imshow(145),
          Colorbar(150, "", "Color Map"),
          SetLabel(152, "ax", "xlabel", "This is the x axis", NoFont, ""),
          SetLabel(153, "ax", "ylabel", "This is the y axis", NoFont, ""),
          SetLabel(154, "ax", "title", "Color map plot", NoFont, ""),
          Show(155) >>

(* --------------------------- python_plots.py --------------------------- *)

PlotsFont == Font(16, "prop_font", NewFontLit(<<font_file>>, "28"))
PlotsLegend == Legend(58, "ax1", "False", FontVar("prop_font"))

ProgramPlots ==
    << PlotsFont,
       Rc(19, "font.size", "28"), Rc(20, "font.style", "normal"),
       Rc(22, "xtick.major.size", "10"), Rc(23, "xtick.major.width", "2"),
       Rc(24, "xtick.minor.size", "5"), Rc(25, "xtick.minor.width", "1"),
       Rc(26, "ytick.major.size", "10"), Rc(27, "ytick.major.width", "2"),
       Rc(28, "ytick.minor.size", "5"), Rc(29, "ytick.minor.width", "1"),
       Rc(30, "axes.linewidth", "5"), Rc(31, "figure.facecolor", "white"),
       Rc(32, "figure.figsize", "18, 10"),
       Rc(33, "xtick.major.pad", "12"), Rc(34, "ytick.major.pad", "12"),
       Assign(37, "x", <<"1", "2", "3", "4", "5">>),
       Assign(38, "y", <<"1", "2", "3", "4", "5">>),
       Subplot(40, "fig"),
       Gca(41, "ax1"),
       SetLabel(44, "ax1", "xlabel", "X axis", FontVar("prop_font"), "32"),
       SetLabel(45, "ax1", "ylabel", "Y axis", FontVar("prop_font"), "32"),
       Draw(47, "ax1", "plot", <<"x", "y">>, "none", [label |-> "This is an example"]),
       TickFont(49, "ax1", "x", "prop_font"),
       TickFont(52, "ax1", "y", "prop_font"),
       GetHandles(57, "ax1"),
       PlotsLegend,
       MinorticksOn(60, "ax1"),
       TickParams(62, "ax1", "x", [which |-> "both", direction |-> "in", width |-> "1"]),
       TickParams(63, "ax1", "y", [which |-> "both", direction |-> "in", width |-> "1"]),
       TicksPosition(64, "ax1", "x"),
       Show(71) >>

Program(s) ==
    CASE s = SansTemplate -> ProgramSansTemplate
      [] s = TimesTemplate -> ProgramTimesTemplate
      [] s = PlotsTimes -> ProgramPlotsTimes
      [] s = PlotsSans -> ProgramPlotsSans
      [] s = Plots -> ProgramPlots

(* ---------------------------- state ------------------------------------ *)

VARIABLES
    script,       \* the script being run ("" before the first run)
    argv0,        \* the path the script was started with (__file__)
    pc,           \* index in Program(script) of the next statement
    status,       \* "idle", "running", "blocked" (in plt.show), "done", "error"
    err,          \* the exception that ended the run ("" if none)
    i,            \* position of the running for-loop over tick labels
    globals,      \* the module namespace: name -> value
    rc,           \* rcParams entries the script has set: key -> value
    objs,         \* every figure created in this run, by creation number
    open,         \* creation numbers of the figures pyplot holds open; last = current
    outputs,      \* figures shown in a window or written to a file in this run
    fs,           \* the filesystem: path -> [writer, content]
    cwd,          \* the working directory
    interactive,  \* whether the matplotlib backend opens windows
    runs          \* number of scripts started in this session

vars == << script, argv0, pc, status, err, i, globals, rc, objs, open, outputs,
           fs, cwd, interactive, runs >>

\* the font file as found on disk before any run
FontEntry == [writer |-> <<"preexisting", 0>>, content |-> "ttf"]

\* the ways a script in the repository is started from working directory d
Invocations(d, s) ==
    IF d = RepoDir THEN { <<s>> }
    ELSE { <<"..", "repo", s>>, Append(RepoDir, s) }

NoText == [s |-> "", font |-> DefaultFont]

\* a figure as created by plt.subplots(), plt.subplot() or an implicit gcf(),
\* with n tick labels on each axis (none for a figure without axes)
NewFigure(origin, line, n) ==
    [origin |-> origin, line |-> line,
     artists |-> <<>>, texts |-> <<>>,
     xlabel |-> NoText, ylabel |-> NoText, title |-> NoText,
     legend |-> <<>>, cbar |-> <<>>,
     xticks |-> [k \in 1..n |-> DefaultFont],
     yticks |-> [k \in 1..n |-> DefaultFont],
     tickops |-> <<>>]

Stmt == Program(script)[pc]
At(op) == status = "running" /\ pc <= Len(Program(script)) /\ Stmt.op = op
Bind(name, value) == (name :> value) @@ globals
FigOf(name) == globals[name].fig
Current == open[Len(open)]

EvalFont(fe) ==
    CASE fe.how = "none" -> DefaultFont
      [] fe.how = "var" -> globals[fe.ref]
      [] fe.how = "new" ->
            FontProperties(IF fe.ref = "" THEN fe.fname ELSE globals[fe.ref], fe.size)

(* ---------------------------- rendering -------------------------------- *)

Range(f) == { f[k] : k \in DOMAIN f }

\* the fonts of the text elements a figure draws
FontsOf(f) ==
    { t.font : t \in { u \in {f.xlabel, f.ylabel, f.title} : u.s # "" } }
    \cup { t.font : t \in Range(f.texts) }
    \cup Range(f.xticks) \cup Range(f.yticks)
    \cup UNION { IF l.entries > 0 THEN {l.font} ELSE {} : l \in Range(f.legend) }
    \cup UNION { (IF c.label.s # "" THEN {c.label.font} ELSE {}) \cup Range(c.ticks)
                 : c \in Range(f.cbar) }

\* the file a font is read from when text is drawn
FontFile(fp) == Resolve(cwd, fp.fname)
FontLoads(fp) == fp.fname = <<>> \/ FontFile(fp) \in DOMAIN fs
Renders(f) == \A fp \in FontsOf(f) : FontLoads(fp)

Output(kind, line, id, path) ==
    [kind |-> kind, line |-> line, fig |-> objs[id], path |-> path]

(* ---------------------------- initial state ---------------------------- *)

Init ==
    /\ script = "" /\ argv0 = <<>> /\ pc = 0 /\ status = "idle" /\ err = ""
    /\ i = 1 /\ globals = <<>> /\ rc = <<>> /\ objs = <<>> /\ open = <<>>
    /\ outputs = {} /\ runs = 0
    /\ cwd \in Dirs
    /\ interactive \in BOOLEAN
    /\ \E inRepo \in BOOLEAN, inWork \in BOOLEAN :
          /\ cwd = RepoDir => ~inWork
          /\ fs = [p \in (IF inRepo THEN {Append(RepoDir, font_file)} ELSE {})
                          \cup (IF inWork THEN {Append(WorkDir, font_file)} ELSE {})
                     |-> FontEntry]

(* ---------------------------- statements as actions -------------------- *)

Advance == pc' = pc + 1 /\ status' = status /\ err' = err /\ i' = i
Env == UNCHANGED << script, argv0, cwd, interactive, runs >>

\* python3 <script>: a fresh interpreter in the same working directory
StartScript ==
    /\ status \in {"idle", "done", "error"}
    /\ runs < MaxRuns
    /\ \E s \in Scripts : \E a \in Invocations(cwd, s) :
          /\ script' = s
          /\ argv0' = a
    /\ pc' = 1 /\ status' = "running" /\ err' = "" /\ i' = 1
    /\ globals' = <<>> /\ rc' = <<>> /\ objs' = <<>> /\ open' = <<>>
    /\ outputs' = {}
    /\ runs' = runs + 1
    /\ UNCHANGED << fs, cwd, interactive >>

\* plt.rcParams[key] = val
RcSet ==
    /\ At("rc")
    /\ rc' = (Stmt.key :> Stmt.val) @@ rc
    /\ Advance /\ Env
    /\ UNCHANGED << globals, objs, open, outputs, fs >>

\* name = <literal> (style dictionaries, example data)
AssignStmt ==
    /\ At("assign")
    /\ globals' = Bind(Stmt.name, Stmt.value)
    /\ Advance /\ Env
    /\ UNCHANGED << rc, objs, open, outputs, fs >>

\* personal_path = os.path.dirname(os.path.realpath(__file__))
ScriptDirStmt ==
    /\ At("scriptdir")
    /\ globals' = Bind(Stmt.name, dirname(realpath(cwd, argv0)))
    /\ Advance /\ Env
    /\ UNCHANGED << rc, objs, open, outputs, fs >>

\* font_path = personal_path + '/' + font_file
JoinStmt ==
    /\ At("joinpath")
    /\ globals' = Bind(Stmt.name, JoinPath(globals[Stmt.dir], globals[Stmt.file]))
    /\ Advance /\ Env
    /\ UNCHANGED << rc, objs, open, outputs, fs >>

\* paper_font = fm.FontProperties(fname=..., size=...): the file is not opened
FontStmt ==
    /\ At("font")
    /\ globals' = Bind(Stmt.name, EvalFont(Stmt.font))
    /\ Advance /\ Env
    /\ UNCHANGED << rc, objs, open, outputs, fs >>

\* fig, ax = plt.subplots()
SubplotsStmt ==
    /\ At("subplots")
    /\ \E n \in 1..MaxTicks :
          objs' = Append(objs, NewFigure("subplots", Stmt.line, n))
    /\ open' = Append(open, Len(objs) + 1)
    /\ globals' = ("fig" :> [kind |-> "figure", fig |-> Len(objs) + 1])
                  @@ Bind("ax", [kind |-> "axes", fig |-> Len(objs) + 1])
    /\ Advance /\ Env
    /\ UNCHANGED << rc, outputs, fs >>

\* fig = plt.subplot(111): axes on the current figure, created when none is open
SubplotStmt ==
    /\ At("subplot")
    /\ IF open = <<>>
       THEN /\ \E n \in 1..MaxTicks :
                  objs' = Append(objs, NewFigure("subplot", Stmt.line, n))
            /\ open' = <<Len(objs) + 1>>
            /\ globals' = Bind(Stmt.name, [kind |-> "axes", fig |-> Len(objs) + 1])
       ELSE /\ globals' = Bind(Stmt.name, [kind |-> "axes", fig |-> Current])
            /\ UNCHANGED << objs, open >>
    /\ Advance /\ Env
    /\ UNCHANGED << rc, outputs, fs >>

\* ax1 = plt.gca()
GcaStmt ==
    /\ At("gca")
    /\ IF open = <<>>
       THEN /\ \E n \in 1..MaxTicks :
                  objs' = Append(objs, NewFigure("gca", Stmt.line, n))
            /\ open' = <<Len(objs) + 1>>
            /\ globals' = Bind(Stmt.name, [kind |-> "axes", fig |-> Len(objs) + 1])
       ELSE /\ globals' = Bind(Stmt.name, [kind |-> "axes", fig |-> Current])
            /\ UNCHANGED << objs, open >>
    /\ Advance /\ Env
    /\ UNCHANGED << rc, outputs, fs >>

\* the tick-changing calls only record what they change on the axis
TickOp(f, op, axis, line) ==
    [f EXCEPT !.tickops = Append(@, [op |-> op, axis |-> axis, line |-> line])]

\* ax.minorticks_on()
MinorticksOnStmt ==
    /\ At("minorticks_on")
    /\ objs' = [objs EXCEPT ![FigOf(Stmt.obj)] =
                   TickOp(@, "minorticks_on", "both", Stmt.line)]
    /\ Advance /\ Env
    /\ UNCHANGED << globals, rc, open, outputs, fs >>

\* the keyword arguments a call f(..., **bundle, key=value, ...) receives;
\* a key given twice raises TypeError
DuplicateKeys(bundle, explicit) == DOMAIN bundle \cap DOMAIN explicit
CallKwargs(bundle, explicit) == bundle @@ explicit

\* ax.hist / ax.plot / ax.scatter / ax.errorbar / ax.imshow
DrawStmt ==
    /\ At("draw")
    /\ IF Stmt.bundle = "none"
       THEN /\ objs' = [objs EXCEPT ![FigOf(Stmt.obj)].artists =
                           Append(@, [kind |-> Stmt.kind, line |-> Stmt.line,
                                      bundle |-> "none",
                                      names |-> Stmt.args,
                                      args |-> [k \in DOMAIN Stmt.args |->
                                                   globals[Stmt.args[k]]],
                                      kwargs |-> Stmt.explicit])]
            /\ Advance
       ELSE IF DuplicateKeys(globals[Stmt.bundle], Stmt.explicit) # {}
       THEN /\ status' = "error" /\ err' = "TypeError"
            /\ UNCHANGED << pc, i, objs >>
       ELSE /\ objs' = [objs EXCEPT ![FigOf(Stmt.obj)].artists =
                           Append(@, [kind |-> Stmt.kind, line |-> Stmt.line,
                                      bundle |-> Stmt.bundle,
                                      names |-> Stmt.args,
                                      args |-> [k \in DOMAIN Stmt.args |->
                                                   globals[Stmt.args[k]]],
                                      kwargs |-> CallKwargs(globals[Stmt.bundle],
                                                            Stmt.explicit)])]
            /\ Advance
    /\ Env
    /\ UNCHANGED << globals, rc, open, outputs, fs >>

\* AfterTextCall with the size set on the caller's FontProperties itself
AfterTextCall_Mut(st) ==
    IF st.font.how = "var" /\ st.size # ""
    THEN Bind(st.font.ref, [globals[st.font.ref] EXCEPT !.size = st.size])
    ELSE globals

\* the namespace after a text call with fontproperties=<name>, size=<n>: the
\* text stores a copy of the FontProperties and sets the size on the copy
AfterTextCall(st) == globals

\* ax.set_xlabel / ax.set_ylabel / ax.set_title / colorbar.set_label
SetLabelStmt ==
    /\ At("set_label")
    /\ LET t == [s |-> Stmt.s, font |-> TextFont(EvalFont(Stmt.font), Stmt.size)]
           id == FigOf(Stmt.obj)
       IN objs' = CASE Stmt.role = "xlabel" -> [objs EXCEPT ![id].xlabel = t]
                    [] Stmt.role = "ylabel" -> [objs EXCEPT ![id].ylabel = t]
                    [] Stmt.role = "title" -> [objs EXCEPT ![id].title = t]
                    [] Stmt.role = "label" -> [objs EXCEPT ![id].cbar[1].label = t]
    /\ globals' = AfterTextCall(Stmt)
    /\ Advance /\ Env
    /\ UNCHANGED << rc, open, outputs, fs >>

\* the tick labels a loop runs over: ax.get_xticklabels(), ax.get_yticklabels(),
\* colorbar.ax.get_yticklabels()
TickLabels(st) ==
    LET f == objs[FigOf(st.obj)]
    IN  IF globals[st.obj].kind = "colorbar" THEN f.cbar[1].ticks
        ELSE IF st.axis = "x" THEN f.xticks ELSE f.yticks

\* one pass of `for label in ...: label.set_fontproperties(font)`
TickFontIter ==
    /\ At("tickfont")
    /\ i <= Len(TickLabels(Stmt))
    /\ LET id == FigOf(Stmt.obj)
           fp == TextFont(globals[Stmt.font], "")
       IN objs' = IF globals[Stmt.obj].kind = "colorbar"
                  THEN [objs EXCEPT ![id].cbar[1].ticks[i] = fp]
                  ELSE IF Stmt.axis = "x"
                  THEN [objs EXCEPT ![id].xticks[i] = fp]
                  ELSE [objs EXCEPT ![id].yticks[i] = fp]
    /\ i' = i + 1
    /\ UNCHANGED << pc, status, err >>
    /\ Env
    /\ UNCHANGED << globals, rc, open, outputs, fs >>

\* TickFontExit with the loop started over instead of left
TickFontExit_Mut ==
    /\ At("tickfont")
    /\ i > Len(TickLabels(Stmt))
    /\ i' = 1
    /\ UNCHANGED << pc, status, err, objs >>
    /\ Env
    /\ UNCHANGED << globals, rc, open, outputs, fs >>

\* the loop ends when the labels are exhausted
TickFontExit ==
    /\ At("tickfont")
    /\ i > Len(TickLabels(Stmt))
    /\ objs' = [objs EXCEPT ![FigOf(Stmt.obj)] =
                   TickOp(@, "set_fontproperties", Stmt.axis, Stmt.line)]
    /\ i' = 1
    /\ pc' = pc + 1
    /\ UNCHANGED << status, err >>
    /\ Env
    /\ UNCHANGED << globals, rc, open, outputs, fs >>

\* handles, labels = ax.get_legend_handles_labels()
Labelled(artists) == SelectSeq(artists, LAMBDA a : "label" \in DOMAIN a.kwargs)
GetHandlesStmt ==
    /\ At("get_handles")
    /\ LET as == Labelled(objs[FigOf(Stmt.obj)].artists)
       IN globals' = ("handles" :> [k \in DOMAIN as |-> as[k].line])
                     @@ Bind("labels", [k \in DOMAIN as |-> as[k].kwargs.label])
    /\ Advance /\ Env
    /\ UNCHANGED << rc, objs, open, outputs, fs >>

\* the legend a call ax.legend(frameon=..., prop=...) builds: a keyword that is
\* not given takes its rcParams value (legend.frameon defaults to True)
RcFrameon == IF "legend.frameon" \in DOMAIN rc THEN rc["legend.frameon"] = "True" ELSE TRUE
NewLegend(st, entries) ==
    [frameon |-> IF st.frameon = "" THEN RcFrameon ELSE st.frameon = "True",
     font |-> EvalFont(st.font),
     entries |-> entries,
     line |-> st.line]

\* ax.legend(...): the axes keep one legend, the one made by the latest call
LegendStmt ==
    /\ At("legend")
    /\ LET id == FigOf(Stmt.obj)
       IN objs' = [objs EXCEPT ![id].legend =
                      << NewLegend(Stmt, Len(Labelled(objs[id].artists))) >>]
    /\ Advance /\ Env
    /\ UNCHANGED << globals, rc, open, outputs, fs >>

\* MajorLocatorStmt with the axis left with the locator it had
MajorLocatorStmt_Mut ==
    /\ At("set_major_locator")
    /\ objs' = objs
    /\ Advance /\ Env
    /\ UNCHANGED << globals, rc, open, outputs, fs >>

\* ax.xaxis.set_major_locator(MultipleLocator(1))
MajorLocatorStmt ==
    /\ At("set_major_locator")
    /\ objs' = [objs EXCEPT ![FigOf(Stmt.obj)] =
                   TickOp(@, "set_major_locator", Stmt.axis, Stmt.line)]
    /\ Advance /\ Env
    /\ UNCHANGED << globals, rc, open, outputs, fs >>

\* ax.text(x, y, s, fontproperties=..., size=...)
TextStmt ==
    /\ At("text")
    /\ objs' = [objs EXCEPT ![FigOf(Stmt.obj)].texts =
                   Append(@, [s |-> Stmt.s,
                              font |-> TextFont(EvalFont(Stmt.font), Stmt.size)])]
    /\ globals' = AfterTextCall(Stmt)
    /\ Advance /\ Env
    /\ UNCHANGED << rc, open, outputs, fs >>

\* fig.colorbar(img, ax=ax, label=...); the colorbar is given as many tick
\* labels as the axes of its figure
ColorbarStmt ==
    /\ At("colorbar")
    /\ LET id == FigOf("fig")
       IN objs' = [objs EXCEPT ![id].cbar =
                      << [label |-> [s |-> Stmt.label, font |-> DefaultFont],
                          ticks |-> [k \in DOMAIN objs[id].xticks |-> DefaultFont]] >>]
    /\ globals' = IF Stmt.target = "" THEN globals
                  ELSE Bind(Stmt.target, [kind |-> "colorbar", fig |-> FigOf("fig")])
    /\ Advance /\ Env
    /\ UNCHANGED << rc, open, outputs, fs >>

\* colorbar.ax.tick_params(labelsize=12) / axis.set_tick_params(which, direction, width)
Resize(ticks, kw) ==
    IF "labelsize" \in DOMAIN kw
    THEN [k \in DOMAIN ticks |-> [ticks[k] EXCEPT !.size = kw.labelsize]]
    ELSE ticks
TickParamsStmt ==
    /\ At("tick_params")
    /\ LET id == FigOf(Stmt.obj)
           f == TickOp(objs[id], "tick_params", Stmt.axis, Stmt.line)
       IN objs' = [objs EXCEPT ![id] =
                      IF globals[Stmt.obj].kind = "colorbar"
                      THEN [f EXCEPT !.cbar[1].ticks = Resize(@, Stmt.kw)]
                      ELSE IF Stmt.axis = "x"
                      THEN [f EXCEPT !.xticks = Resize(@, Stmt.kw)]
                      ELSE [f EXCEPT !.yticks = Resize(@, Stmt.kw)]]
    /\ Advance /\ Env
    /\ UNCHANGED << globals, rc, open, outputs, fs >>

\* ax1.xaxis.set_ticks_position('both')
TicksPositionStmt ==
    /\ At("set_ticks_position")
    /\ objs' = [objs EXCEPT ![FigOf(Stmt.obj)] =
                   TickOp(@, "set_ticks_position", Stmt.axis, Stmt.line)]
    /\ Advance /\ Env
    /\ UNCHANGED << globals, rc, open, outputs, fs >>

(* ---------------------------- show and save ---------------------------- *)

Shown(line) == { Output("show", line, open[k], <<>>) : k \in DOMAIN open }

\* plt.show() under a non-interactive backend: nothing is drawn, figures stay open
ShowNothing ==
    /\ At("show")
    /\ ~interactive
    /\ Advance /\ Env
    /\ UNCHANGED << globals, rc, objs, open, outputs, fs >>

\* plt.show() under an interactive backend: every open figure is drawn in a
\* window and the call waits for the windows to be closed.  A figure whose font
\* file cannot be read is not drawn; the exception either ends the script or is
\* reported by the event loop of the backend, which keeps waiting.
ShowWindows ==
    /\ At("show")
    /\ interactive
    /\ \/ /\ outputs' = outputs \cup { o \in Shown(Stmt.line) : Renders(o.fig) }
          /\ status' = "blocked"
          /\ err' = err
       \/ /\ \E k \in DOMAIN open : ~Renders(objs[open[k]])
          /\ status' = "error"
          /\ err' = "FileNotFoundError"
          /\ outputs' = outputs
    /\ UNCHANGED << pc, i >>
    /\ Env
    /\ UNCHANGED << globals, rc, objs, open, fs >>

\* the user closes the windows: plt.show() returns, the figures are destroyed
CloseWindows ==
    /\ status = "blocked"
    /\ status' = "running"
    /\ open' = <<>>
    /\ pc' = pc + 1
    /\ UNCHANGED << err, i >>
    /\ Env
    /\ UNCHANGED << globals, rc, objs, outputs, fs >>

\* SavePath with the file placed next to the script, as the font path is
SavePath_Mut(name) == Resolve(dirname(realpath(cwd, argv0)), name)

\* the file plt.savefig(name) writes
SavePath(name) == Resolve(cwd, name)

\* plt.savefig(name, format=...): the current figure (a new empty one when no
\* figure is open) is written.  When drawing fails on a missing font file the
\* output file is either left truncated (opened before the figure is drawn) or
\* not touched, depending on the matplotlib version.
SavefigStmt ==
    /\ At("savefig")
    /\ LET fresh == open = <<>>
           id == IF fresh THEN Len(objs) + 1 ELSE Current
           heap == IF fresh THEN Append(objs, NewFigure("implicit", Stmt.line, 0))
                   ELSE objs
           path == SavePath(Stmt.name)
           who == << script, pc >>
       IN /\ objs' = heap
          /\ open' = IF fresh THEN <<id>> ELSE open
          /\ IF Renders(heap[id])
             THEN /\ fs' = (path :> [writer |-> who, content |-> Stmt.format]) @@ fs
                  /\ outputs' = outputs \cup
                        { [kind |-> "save", line |-> Stmt.line, fig |-> heap[id],
                           path |-> path] }
                  /\ Advance
             ELSE /\ \/ fs' = (path :> [writer |-> who, content |-> "partial"]) @@ fs
                     \/ fs' = fs
                  /\ status' = "error" /\ err' = "FileNotFoundError"
                  /\ UNCHANGED << pc, i, outputs >>
    /\ Env
    /\ UNCHANGED << globals, rc >>

\* the last statement has been executed: the interpreter exits normally
Finish ==
    /\ status = "running"
    /\ pc = Len(Program(script)) + 1
    /\ status' = "done"
    /\ UNCHANGED << pc, err, i >>
    /\ Env
    /\ UNCHANGED << globals, rc, objs, open, outputs, fs >>

\* the steps the Python interpreter takes by itself
Step ==
    \/ RcSet \/ AssignStmt \/ ScriptDirStmt \/ JoinStmt \/ FontStmt
    \/ SubplotsStmt \/ SubplotStmt \/ GcaStmt \/ MinorticksOnStmt \/ DrawStmt
    \/ SetLabelStmt \/ TickFontIter \/ TickFontExit \/ GetHandlesStmt
    \/ LegendStmt \/ MajorLocatorStmt \/ TextStmt \/ ColorbarStmt
    \/ TickParamsStmt \/ TicksPositionStmt
    \/ ShowNothing \/ ShowWindows \/ SavefigStmt \/ Finish

Next == StartScript \/ Step \/ CloseWindows

Spec == Init /\ [][Next]_vars

\* the interpreter keeps executing statements; starting a script and closing a
\* window are the user's moves and are not forced
LiveSpec == Spec /\ WF_vars(Step)

(* ---------------------------- properties ------------------------------- *)

\* the names a script binds its publication font to
FontVars == {"paper_font", "prop_font"}
LoadedFonts == FontVars \cap DOMAIN globals

\* the font file a script names is not on disk where the script looks for it
FontMissing == \E n \in LoadedFonts : ~FontLoads(globals[n])

\* the figures a script creates for its example plots
ExampleFigure(f) == f.origin \in {"subplots", "subplot", "gca"}

HasWatermark(f) == \E k \in DOMAIN f.texts : f.texts[k].s = Watermark

\* C1 (as claimed): in every script, every figure created for an example plot
\* carries the text "SNO+ Preliminary" when it is shown or saved.
C1_WatermarkOnEveryFigure ==
    \A o \in outputs : ExampleFigure(o.fig) => HasWatermark(o.fig)

\* a script defines the style bundles when its program assigns them
DefinesBundles(sc) ==
    \E k \in DOMAIN Program(sc) :
        Program(sc)[k].op = "assign" /\ Program(sc)[k].name \in StyleNames

Artists == UNION { Range(objs[k].artists) : k \in DOMAIN objs }

\* C2: in the scripts that define the style bundles, hist receives histtype
\* 'step' and color 'blue' from histogram_style, plot receives linestyle '-' and
\* color 'red' from line_plot_style, scatter receives marker 's' and color
\* 'black' from scatter_style, and each bundle goes to the call of its own kind
\* only.
C2_BundlesForwarded ==
    (status # "idle" /\ DefinesBundles(script)) =>
        \A a \in Artists :
            /\ a.kind = "hist" =>
                  /\ a.bundle = "histogram_style"
                  /\ a.kwargs.histtype = "step" /\ a.kwargs.color = "blue"
            /\ a.kind = "plot" =>
                  /\ a.bundle = "line_plot_style"
                  /\ a.kwargs.linestyle = "-" /\ a.kwargs.color = "red"
            /\ a.kind = "scatter" =>
                  /\ a.bundle = "scatter_style"
                  /\ a.kwargs.marker = "s" /\ a.kwargs.color = "black"
            /\ a.bundle = "histogram_style" => a.kind = "hist"
            /\ a.bundle = "line_plot_style" => a.kind = "plot"
            /\ a.bundle = "scatter_style" => a.kind = "scatter"
            /\ a.bundle = "errorbar_style" => a.kind = "errorbar"

\* a run in which hist, plot, scatter and errorbar have all been called
C2_Witness ==
    /\ status = "done" /\ script = TimesTemplate
    /\ { a.kind : a \in Artists } = {"hist", "plot", "scatter", "errorbar", "imshow"}

\* C3 (as claimed): when the font file is missing the run ends in an error and
\* no figure is shown or saved; the script never completes normally.
C3_MissingFontEndsInError ==
    FontMissing => (status # "done" /\ outputs = {})

\* C4 (as claimed): in the scripts that load the publication font, every text
\* of a figure that is shown or saved uses a font read from that font file.
C4_AllTextInPublicationFont ==
    \A o \in outputs : \A n \in LoadedFonts : \A fp \in FontsOf(o.fig) :
        fp.fname # <<>> /\ FontFile(fp) = FontFile(globals[n])

\* the configuration values that are built once at script start
Configuration == (StyleNames \cup FontVars) \cap DOMAIN globals

\* C5: once constructed, the four style dictionaries and the font-properties
\* record keep their contents until the run ends.
C5_ConfigurationNeverChanges ==
    [][runs' = runs =>
          \A n \in Configuration : n \in DOMAIN globals' /\ globals'[n] = globals[n]]_vars

\* a finished run that has used the dictionaries and the font record
C5_Witness ==
    /\ status = "done" /\ script = TimesTemplate
    /\ Configuration = StyleNames \cup {"paper_font"}
    /\ \E o \in outputs : o.fig.xlabel.font.size = "26"

\* the savefig statements of all scripts, as <<script, statement index>>
Exports ==
    UNION { { <<sc, k>> : k \in { j \in DOMAIN Program(sc) :
                                      Program(sc)[j].op = "savefig" } }
            : sc \in Scripts }
ExportName(e) == Program(e[1])[e[2]].name
ExportNamesDistinct ==
    \A a \in Exports : \A b \in Exports : a # b => ExportName(a) # ExportName(b)

ExportFailed == status = "error" /\ Stmt.op = "savefig"

\* C6 (as claimed): all exports have distinct output names and no export step
\* ends in an error.
C6_ExportsDistinctAndNeverFail == ExportNamesDistinct /\ ~ExportFailed

\* C6 (amended): all exports have distinct output names and no export replaces
\* a file written by another export; an export step ends in an error only when
\* the font file the script names is missing.
C6_ExportsDistinctFailOnlyWithoutFont ==
    /\ [](ExportNamesDistinct /\ (ExportFailed => FontMissing))
    /\ [][\A p \in DOMAIN fs \cap DOMAIN fs' :
             fs[p] # FontEntry => fs'[p].writer = fs[p].writer]_vars

\* both templates have exported both of their figures into one directory
C6_Witness ==
    \A e \in Exports :
        /\ SavePath(ExportName(e)) \in DOMAIN fs
        /\ fs[SavePath(ExportName(e))] = [writer |-> e, content |-> "pdf"]

\* C7: the only files a script creates or changes are the ones savefig writes:
\* format 'pdf', a bare file name, in the working directory; the font files are
\* left as they are and no file is removed.
C7_OnlyPdfFilesWritten ==
    /\ [](\A p \in DOMAIN fs :
             \/ fs[p] = FontEntry
             \/ LET st == Program(fs[p].writer[1])[fs[p].writer[2]]
                IN /\ st.op = "savefig" /\ st.format = "pdf"
                   /\ IsBareName(st.name)
                   /\ p = cwd \o st.name
                   /\ fs[p].content \in {"pdf", "partial"})
    /\ [][\A p \in DOMAIN fs :
             /\ p \in DOMAIN fs'
             /\ fs[p] = FontEntry => fs'[p] = FontEntry]_vars

\* a PDF written into a working directory that is not the script's directory,
\* with the font file still in place next to the script
C7_Witness ==
    /\ cwd = WorkDir
    /\ Append(RepoDir, font_file) \in DOMAIN fs
    /\ Append(WorkDir, "example2D_Times.pdf") \in DOMAIN fs
    /\ fs[Append(WorkDir, "example2D_Times.pdf")].content = "pdf"

\* the directory the running script lies in
ScriptDirectory == dirname(realpath(cwd, argv0))

\* C8 (as claimed): when the font file lies next to the script, the font path
\* the script computes is that file, whatever the working directory.
C8_FontPathResolvesNextToScript ==
    \A n \in LoadedFonts :
        Append(ScriptDirectory, font_file) \in DOMAIN fs =>
            FontFile(globals[n]) = Append(ScriptDirectory, font_file)

\* C9 (as claimed): no step suspends execution waiting for an external event.
C9_NoStepWaits == status # "blocked"

\* within a run the statements are taken in source order, each once; only a
\* pass of a tick-label loop, a wait in plt.show(), an exception or the end of
\* the run leave the position where it is
InSourceOrder ==
    runs' = runs =>
        /\ pc' \in {pc, pc + 1}
        /\ pc' = pc =>
              \/ status' \in {"blocked", "error", "done"}
              \/ At("tickfont") /\ i' = i + 1 /\ i <= MaxTicks

\* C9 (amended): each script executes its statements once, in source order, and
\* the loops over tick labels are finite; the only step that suspends execution
\* is plt.show() under an interactive backend, which waits for the user to close
\* the windows; a run goes on until its last statement, an exception or such a
\* wait.
C9_InOrderWaitsOnlyInShow ==
    /\ [][InSourceOrder]_vars
    /\ [](status = "blocked" => (interactive /\ Stmt.op = "show"))
    /\ [](status = "done" => pc = Len(Program(script)) + 1)
    /\ (status = "running") ~> (status \in {"blocked", "done", "error"})

\* a run that waited in both plt.show() calls, ran its loops and finished
C9_Witness ==
    /\ status = "done" /\ script = PlotsTimes /\ interactive
    /\ { o.line : o \in outputs } = {137, 176}

\* C10: the legend on a figure that is shown or saved was created with
\* frameon=False.
C10_LegendFrameless ==
    \A o \in outputs : \A k \in DOMAIN o.fig.legend : ~o.fig.legend[k].frameon

\* a figure shown after two legend calls, the later one being the frameless one
C10_Witness ==
    \E o \in outputs :
        /\ script = PlotsTimes
        /\ o.fig.legend # <<>>
        /\ o.fig.legend[1].line = 127

\* the artists of a figure that draw the example data series: the calls given
\* the names x and y
DataSeries(f) == { a \in Range(f.artists) : a.names = <<"x", "y">> }

\* C11 (as claimed): in every script that plots the example data series, the
\* series is drawn as black points with error bars: a scatter call and an
\* errorbar call, both with color 'black', both given the same x and y, the
\* errorbar call with linestyle 'None'.
C11_DataBlackPointsWithErrorBars ==
    \A o \in outputs :
        DataSeries(o.fig) # {} =>
            \E sc \in DataSeries(o.fig) : \E eb \in DataSeries(o.fig) :
                /\ sc.kind = "scatter" /\ eb.kind = "errorbar"
                /\ sc.args = eb.args
                /\ sc.kwargs.color = "black" /\ eb.kwargs.color = "black"
                /\ eb.kwargs.linestyle = "None"
                /\ \A a \in DataSeries(o.fig) : a.kind \in {"scatter", "errorbar"}

\* the calls that put drawn elements on a figure: the data, the colour bar,
\* the legend and the watermark text
DrawCalls == {"draw", "colorbar", "legend", "text"}

\* a plt.show() stands between the last draw call and statement k
ShowSinceLastDraw(k) ==
    \E j \in 1..(k - 1) :
        /\ Program(script)[j].op = "show"
        /\ \A m \in (j + 1)..(k - 1) : Program(script)[m].op \notin DrawCalls

\* C12 (as claimed): in every script that exports a PDF, no plt.show() step
\* occurs between the last draw call on a figure and the savefig that exports
\* it, so every savefig writes the figure that holds the drawn plot elements
\* and the watermark.
C12_NoShowBeforeSavefig ==
    /\ At("savefig") => ~ShowSinceLastDraw(pc)
    /\ \A o \in outputs :
           o.kind = "save" => /\ ExampleFigure(o.fig)
                              /\ o.fig.artists # <<>>
                              /\ HasWatermark(o.fig)

\* the keyword attributes written out in the draw call that made artist a
ExplicitOf(a) ==
    LET k == CHOOSE k \in DOMAIN Program(script) :
                 Program(script)[k].op = "draw" /\ Program(script)[k].line = a.line
    IN Program(script)[k].explicit

\* C13: at every draw call that merges a style bundle with explicitly passed
\* keyword attributes (label, yerr) the bundle's keys are disjoint from the
\* explicit ones, so the merge never fails on a duplicate key, and the merged
\* record is exactly the bundle's entries plus the explicit ones, no bundle
\* value overridden.
C13_BundleMergeDisjoint ==
    /\ err # "TypeError"
    /\ (At("draw") /\ Stmt.bundle # "none") =>
           DuplicateKeys(globals[Stmt.bundle], Stmt.explicit) = {}
    /\ status # "idle" =>
           \A a \in Artists :
               a.bundle # "none" =>
                   LET bundle == globals[a.bundle]
                       explicit == ExplicitOf(a)
                   IN /\ DOMAIN bundle \cap DOMAIN explicit = {}
                      /\ DOMAIN a.kwargs = DOMAIN bundle \cup DOMAIN explicit
                      /\ \A k \in DOMAIN bundle : a.kwargs[k] = bundle[k]
                      /\ \A k \in DOMAIN explicit : a.kwargs[k] = explicit[k]

\* the errorbar call has merged errorbar_style with yerr and label
C13_Witness ==
    \E a \in Artists :
        /\ a.kind = "errorbar" /\ a.bundle = "errorbar_style"
        /\ DOMAIN a.kwargs = {"linestyle", "color", "capsize", "yerr", "label"}
        /\ a.kwargs.yerr = "0.5" /\ a.kwargs.label = "Errorbar"
        /\ a.kwargs.linestyle = "None"

\* the steps that change which ticks an axis has
TickChanging ==
    {"set_major_locator", "minorticks_on", "tick_params", "set_ticks_position"}

\* the object (ax, ax1, colorbar) a recorded tick step was called on
TickTarget(t) ==
    LET k == CHOOSE k \in DOMAIN Program(script) : Program(script)[k].line = t.line
    IN Program(script)[k].obj

\* two tick steps act on the same axis of the same object
SameAxis(s, t) ==
    /\ TickTarget(s) = TickTarget(t)
    /\ s.axis = t.axis \/ s.axis = "both" \/ t.axis = "both"

\* the tick-changing steps recorded in ops after position j, on the axis of ops[j]
LaterTickChanges(ops, j) ==
    { k \in DOMAIN ops : /\ k > j
                         /\ ops[k].op \in TickChanging
                         /\ SameAxis(ops[j], ops[k]) }

\* the line of the statement that creates the first example figure
FirstFigureLine ==
    LET made == { k \in DOMAIN Program(script) :
                      Program(script)[k].op \in {"subplots", "subplot"} }
        first == CHOOSE k \in made : \A m \in made : k <= m
    IN Program(script)[first].line

\* C14 (as claimed): in the scripts that assign the publication font to tick
\* labels, no tick-changing step (set_major_locator, minorticks_on,
\* set_tick_params, set_ticks_position) follows the font assignment on the same
\* axis before the figure is shown or saved.
C14_TickFontAfterTickChanges ==
    \A o \in outputs :
        \A j \in DOMAIN o.fig.tickops :
            o.fig.tickops[j].op = "set_fontproperties" =>
                LaterTickChanges(o.fig.tickops, j) = {}

\* C14 (amended): on the first example figure every tick-label font assignment
\* is followed by a tick-changing step on the same axis before the figure is
\* shown or saved; on the later figures none follows; and the only
\* tick-changing step that ever precedes a font assignment on its axis is
\* minorticks_on.
C14_TickChangesFollowFontOnFirstFigure ==
    \A o \in outputs :
        LET ops == o.fig.tickops
        IN \A j \in DOMAIN ops :
               ops[j].op = "set_fontproperties" =>
                   /\ (o.fig.line = FirstFigureLine) = (LaterTickChanges(ops, j) # {})
                   /\ \A k \in 1..(j - 1) :
                          (ops[k].op \in TickChanging /\ SameAxis(ops[j], ops[k]))
                              => ops[k].op = "minorticks_on"

\* the first figure of the Times template is saved with set_major_locator
\* recorded after the font assignment on the x axis
C14_Witness ==
    \E o \in outputs :
        /\ script = TimesTemplate /\ o.kind = "save" /\ o.fig.line = FirstFigureLine
        /\ \E j \in DOMAIN o.fig.tickops : \E k \in DOMAIN o.fig.tickops :
               /\ j < k
               /\ o.fig.tickops[j].op = "set_fontproperties"
               /\ o.fig.tickops[j].axis = "x"
               /\ o.fig.tickops[k].op = "set_major_locator"
               /\ o.fig.tickops[k].axis = "x"

\* the plt.rcParams[...] = ... statements of program P, as statement indices
RcStatements(P) == { k \in DOMAIN P : P[k].op = "rc" }

\* the global style a script has set when all its rcParams statements have run:
\* for every key the value of the last statement that assigns it
FullStyle(sc) ==
    LET P == Program(sc)
        R == RcStatements(P)
    IN [key \in { P[k].key : k \in R } |->
           P[CHOOSE k \in R : /\ P[k].key = key
                              /\ \A m \in R : m > k => P[m].key # key].val]

\* the style dictionaries and the font record a script constructs
Constructed(sc) ==
    LET P == Program(sc)
    IN { P[k].name : k \in { j \in DOMAIN P :
                                \/ P[j].op = "assign" /\ P[j].name \in StyleNames
                                \/ P[j].op = "font" /\ P[j].name \in FontVars } }

\* the complete style and the constructed names of every script
Styles == [sc \in Scripts |-> FullStyle(sc)]
ConstructedBy == [sc \in Scripts |-> Constructed(sc)]
RcLines == [sc \in Scripts |->
               { Program(sc)[k].line : k \in RcStatements(Program(sc)) }]
LastRc == [sc \in Scripts |->
              CHOOSE k \in RcStatements(Program(sc)) :
                  \A m \in RcStatements(Program(sc)) : m <= k]

\* C15: in every script all rcParams assignments and the construction of the
\* font record and of the style dictionaries are completed before the first
\* figure or axes is created, and no global style entry changes afterwards: in
\* every state in which a figure exists the global style is the script's
\* complete style, so both example figures are created under the same one.
C15_StyleCompleteBeforeFigures ==
    (status # "idle" /\ objs # <<>>) =>
        /\ rc = Styles[script]
        /\ ConstructedBy[script] \subseteq DOMAIN globals
        /\ LastRc[script] < pc
        /\ \A k \in DOMAIN objs : \A l \in RcLines[script] : l < objs[k].line

\* a finished run of the Sans template: both example figures exist and the
\* global style holds the entries set at the top of the script
C15_Witness ==
    /\ status = "done" /\ script = SansTemplate
    /\ \E j \in DOMAIN objs : \E k \in DOMAIN objs :
           /\ objs[j].origin = "subplots" /\ objs[k].origin = "subplots"
           /\ objs[j].line < objs[k].line
    /\ rc = Styles[script]
    /\ "font.family" \in DOMAIN rc /\ rc["font.family"] = "sans-serif"
    /\ ConstructedBy[script] = StyleNames

====
